---- MODULE Spec2Model ----
(***************************************************************************)
(* Model of src/fp_edf_scheduler.py: the FP/EDF scheduling policy of the   *)
(* class fp_edf_scheduler (a simso Scheduler).  The host calls             *)
(* on_activate, on_terminated and schedule one at a time; each action      *)
(* below is one whole call.                                                *)
(***************************************************************************)
EXTENDS Integers, Sequences, FiniteSets, TLC

\* Longest ready list the model lets the host build.
MaxLen == 3

\* Priority values of the module docstring (lines 6-11) and of schedule().
PRIO_HIGHEST == 1
PRIO_EDF == 127

\* ------------------------------------------------------------------------
\* The host's objects.

\* Python's None.
None == [type |-> "NoneType"]

\* The processors of the host; schedule(cpu) and job.cpu range over them.
CPUs == {"cpu0", "cpu1"}

\* Priority values a task description can carry: the field's default 0, the
\* two ends of the FP band, the EDF value and a value above it.
Prios == {0, PRIO_HIGHEST, PRIO_EDF - 1, PRIO_EDF, PRIO_EDF + 1}

\* Absolute deadlines the host assigns to job instances.
Deadlines == {10, 20}

\* Job objects: job.data['priority'], job.absolute_deadline, job.cpu.  Two
\* job objects are the same object iff they are the same record.  The host
\* runs the jobs due at 10 on cpu0 and those due at 20 on cpu1.
Jobs ==
    { j \in [data : [priority : Prios], absolute_deadline : Deadlines, cpu : CPUs] :
        j.cpu = (IF j.absolute_deadline = 10 THEN "cpu0" ELSE "cpu1") }

\* ------------------------------------------------------------------------
\* State.

VARIABLES
    ready_list,   \* self.ready_list
    call,         \* the last call the host made: method and arguments
    ret,          \* how that call ended: the value returned or the exception
    resched,      \* the job.cpu.resched() requests that call issued
    log,          \* the logging records that call emitted
    pre_list,     \* self.ready_list when that call started
    activated     \* host side: per job, its activations not yet terminated

vars == <<ready_list, call, ret, resched, log, pre_list, activated>>

\* ------------------------------------------------------------------------
\* Python built-ins used by the methods.

\* The elements of a list.
Elems(list) == { list[i] : i \in 1..Len(list) }

\* How many times x occurs in list.
Count(list, x) == Cardinality({ i \in 1..Len(list) : list[i] = x })

\* list.append(x)
list_append(list, x) == Append(list, x)

\* A remove that pops the end of the list, whatever x is.
list_remove_last(list, x) == SubSeq(list, 1, Len(list) - 1)

\* A remove that pops the head of the list, whatever x is.
list_remove_head(list, x) == Tail(list)

\* list.remove(x): drops the first occurrence of x; x must occur.
list_remove(list, x) ==
    LET i == CHOOSE k \in 1..Len(list) :
                 list[k] = x /\ \A m \in 1..(k - 1) : list[m] # x
    IN  SubSeq(list, 1, i - 1) \o SubSeq(list, i + 1, Len(list))

\* A key that is the priority whichever key is asked for.
Key_priority_only(key, x) == x.data.priority

\* The two key functions schedule() passes to min().
Key(key, x) == IF key = "priority" THEN x.data.priority ELSE x.absolute_deadline

\* A scan that keeps the largest key: max() where min() is meant.
RECURSIVE min_from_max(_, _, _, _)
min_from_max(list, key, i, best) ==
    IF i > Len(list) THEN best
    ELSE min_from_max(list, key, i + 1,
                      IF Key(key, list[i]) > Key(key, best) THEN list[i] ELSE best)

\* A scan that also replaces the best so far on an equal key, so the last
\* minimum wins.
RECURSIVE min_from_last_wins(_, _, _, _)
min_from_last_wins(list, key, i, best) ==
    IF i > Len(list) THEN best
    ELSE min_from_last_wins(list, key, i + 1,
                            IF Key(key, list[i]) <= Key(key, best) THEN list[i] ELSE best)

\* min(list, key=...): left to right, an element replaces the best so far
\* only when its key is strictly smaller, so the first minimum wins.
RECURSIVE min_from(_, _, _, _)
min_from(list, key, i, best) ==
    IF i > Len(list) THEN best
    ELSE min_from(list, key, i + 1,
                  IF Key(key, list[i]) < Key(key, best) THEN list[i] ELSE best)

min(list, key) == min_from(list, key, 2, list[1])

\* ------------------------------------------------------------------------
\* Values returned and records emitted.

Returned(value) == [raised |-> "no", value |-> value]
ValueError == [raised |-> "ValueError"]
Decision_first_cpu(job, cpu) == [type |-> "tuple", job |-> job, cpu |-> "cpu0"]
Decision(job, cpu) == [type |-> "tuple", job |-> job, cpu |-> cpu]
Debug(msg) == [level |-> "debug", msg |-> msg]
Error(prio) == [level |-> "error", msg |-> "is not a valid priority value!", value |-> prio]
\* A request on the first processor of the system, whatever the job's is
\* (self.processors[0].resched()).
Resched_first_processor(cpu, list) == [cpu |-> "cpu0", ready_list |-> list]

\* job.cpu.resched(), with the ready list the request is issued on.
Resched(cpu, list) == [cpu |-> cpu, ready_list |-> list]

\* ------------------------------------------------------------------------
\* The methods.

\* init(): the state when the simulation starts.
Init ==
    /\ ready_list = <<>>
    /\ call = [op |-> "init"]
    /\ ret = Returned(None)
    /\ resched = <<>>
    /\ log = <<>>
    /\ pre_list = <<>>
    /\ activated = [job \in Jobs |-> 0]

\* An on_activate that checks the priority: a job whose priority is outside
\* 1..127 is logged as an error and not inserted.
on_activate_validating(job) ==
    /\ Len(ready_list) < MaxLen
    /\ call' = [op |-> "on_activate", job |-> job]
    /\ ret' = Returned(None)
    /\ pre_list' = ready_list
    /\ activated' = [activated EXCEPT ![job] = @ + 1]
    /\ IF job.data.priority \in PRIO_HIGHEST..PRIO_EDF
       THEN /\ ready_list' = list_append(ready_list, job)
            /\ resched' = <<Resched(job.cpu, ready_list')>>
            /\ log' = <<>>
       ELSE /\ ready_list' = ready_list
            /\ resched' = <<>>
            /\ log' = <<Error(job.data.priority)>>

\* on_activate(job)
on_activate(job) ==
    /\ Len(ready_list) < MaxLen
    /\ call' = [op |-> "on_activate", job |-> job]
    /\ ready_list' = list_append(ready_list, job)
    /\ resched' = <<Resched(job.cpu, ready_list')>>
    /\ ret' = Returned(None)
    /\ log' = <<>>
    /\ pre_list' = ready_list
    /\ activated' = [activated EXCEPT ![job] = @ + 1]

\* An on_terminated that lets an absent job pass: nothing is removed, no
\* exception is raised and the reschedule is requested all the same.
on_terminated_discard(job) ==
    /\ call' = [op |-> "on_terminated", job |-> job]
    /\ log' = <<>>
    /\ pre_list' = ready_list
    /\ activated' = [activated EXCEPT ![job] = IF @ > 0 THEN @ - 1 ELSE 0]
    /\ ready_list' = SelectSeq(ready_list, LAMBDA x : x # job)
    /\ resched' = <<Resched(job.cpu, ready_list')>>
    /\ ret' = Returned(None)

\* on_terminated(job)
on_terminated(job) ==
    /\ call' = [op |-> "on_terminated", job |-> job]
    /\ log' = <<>>
    /\ pre_list' = ready_list
    /\ activated' = [activated EXCEPT ![job] = IF @ > 0 THEN @ - 1 ELSE 0]
    /\ IF job \in Elems(ready_list)
       THEN /\ ready_list' = list_remove(ready_list, job)
            /\ resched' = <<Resched(job.cpu, ready_list')>>
            /\ ret' = Returned(None)
       ELSE \* list.remove raises ValueError; the method ends there
            /\ ready_list' = ready_list
            /\ resched' = <<>>
            /\ ret' = ValueError

\* A test that sends every priority up to 127 to the EDF branch.
Regime_edf_up_to(prio_low) ==
    IF prio_low >= PRIO_HIGHEST /\ prio_low <= PRIO_EDF THEN "EDF" ELSE "invalid"

\* A test without the lower bound of the FP band.
Regime_no_lower_bound(prio_low) ==
    IF prio_low < PRIO_EDF THEN "FP"
    ELSE IF prio_low = PRIO_EDF THEN "EDF"
    ELSE "invalid"

\* A test whose FP band starts above the highest priority.
Regime_strict_lower(prio_low) ==
    IF prio_low > PRIO_HIGHEST /\ prio_low < PRIO_EDF THEN "FP"
    ELSE IF prio_low = PRIO_EDF THEN "EDF"
    ELSE "invalid"

\* The branch of schedule() the lowest priority value selects.
Regime(prio_low) ==
    IF prio_low >= PRIO_HIGHEST /\ prio_low < PRIO_EDF THEN "FP"
    ELSE IF prio_low = PRIO_EDF THEN "EDF"
    ELSE "invalid"

\* The value schedule(cpu) returns for a ready list.
schedule_value(list, cpu) ==
    IF list # <<>>
    THEN LET prio_low == min(list, "priority").data.priority
         IN  CASE Regime(prio_low) = "FP" -> Decision(min(list, "priority"), cpu)
               [] Regime(prio_low) = "EDF" -> Decision(min(list, "absolute_deadline"), cpu)
               [] OTHER -> None
    ELSE Decision(None, cpu)

\* The records schedule() logs for a ready list.
schedule_log(list) ==
    IF list # <<>>
    THEN LET prio_low == min(list, "priority").data.priority
         IN  CASE Regime(prio_low) = "FP" -> <<Debug("FP-algorithm!")>>
               [] Regime(prio_low) = "EDF" -> <<Debug("EDF-algorithm!")>>
               [] OTHER -> <<Error(prio_low)>>
    ELSE <<>>

\* A schedule that takes the job it returns out of the ready list.
schedule_pop(cpu) ==
    /\ call' = [op |-> "schedule", cpu |-> cpu]
    /\ ret' = Returned(schedule_value(ready_list, cpu))
    /\ log' = schedule_log(ready_list)
    /\ resched' = <<>>
    /\ pre_list' = ready_list
    /\ ready_list' = IF ret'.value # None /\ ret'.value.job # None
                     THEN list_remove(ready_list, ret'.value.job)
                     ELSE ready_list
    /\ UNCHANGED activated

\* schedule(cpu)
schedule(cpu) ==
    /\ call' = [op |-> "schedule", cpu |-> cpu]
    /\ ret' = Returned(schedule_value(ready_list, cpu))
    /\ log' = schedule_log(ready_list)
    /\ resched' = <<>>
    /\ pre_list' = ready_list
    /\ UNCHANGED <<ready_list, activated>>

\* ------------------------------------------------------------------------
\* Specifications.

\* Any sequence of calls.
Next ==
    \/ \E job \in Jobs : on_activate(job)
    \/ \E job \in Jobs : on_terminated(job)
    \/ \E cpu \in CPUs : schedule(cpu)

Spec == Init /\ [][Next]_vars

\* The host keeps its guarantees: it activates a job only when the job is
\* not ready and terminates a job only when it is.
HostNext ==
    \/ \E job \in Jobs : job \notin Elems(ready_list) /\ on_activate(job)
    \/ \E job \in Jobs : job \in Elems(ready_list) /\ on_terminated(job)
    \/ \E cpu \in CPUs : schedule(cpu)

HostSpec == Init /\ [][HostNext]_vars

\* Any sequence of calls in which the host, as long as it can, goes on
\* asking for decisions.
FairSpec == Spec /\ WF_vars(\E cpu \in CPUs : schedule(cpu))

\* ------------------------------------------------------------------------
\* Properties.

\* The priorities and deadlines present in a list, and their minima.
PrioritiesOf(list) == { list[i].data.priority : i \in 1..Len(list) }
DeadlinesOf(list) == { list[i].absolute_deadline : i \in 1..Len(list) }
Least(S) == CHOOSE p \in S : \A q \in S : p <= q

\* The last call was schedule() / on_activate() / on_terminated().
Scheduled == call.op = "schedule"
Activated == call.op = "on_activate"
Terminated == call.op = "on_terminated"

\* The last call returned the decision (job, cpu) for the cpu it was given.
Decided(job) == ret = Returned(Decision(job, call.cpu))

\* C1: while the host activates only absent jobs and terminates only present
\* ones, a job is in the ready list exactly when it has an activation not yet
\* terminated, and no job is in the list twice.
C1_ReadyIffActive ==
    \A job \in Jobs :
        /\ job \in Elems(ready_list) <=> activated[job] > 0
        /\ Count(ready_list, job) <= 1

\* A job was terminated while two others stay ready.
C1_Witness ==
    /\ Terminated /\ ret = Returned(None)
    /\ Len(ready_list) = 2
    /\ activated[call.job] = 0

\* C2: when the lowest priority value of a non-empty ready list lies in
\* 1..126, schedule(cpu) returns (job, cpu) for a ready job whose priority is
\* that lowest value: no ready job has a strictly smaller one.
C2_FixedPriorityPicksLowest ==
    (Scheduled /\ pre_list # <<>>
       /\ Least(PrioritiesOf(pre_list)) \in PRIO_HIGHEST..(PRIO_EDF - 1))
    => \E job \in Elems(pre_list) :
          /\ Decided(job)
          /\ job.data.priority = Least(PrioritiesOf(pre_list))
          /\ \A other \in Elems(pre_list) : other.data.priority >= job.data.priority

\* The job returned is not the head of the list: it was picked for its
\* priority among jobs of other priorities.
C2_Witness ==
    /\ Scheduled /\ Len(pre_list) = 3
    /\ Least(PrioritiesOf(pre_list)) = PRIO_EDF - 1
    /\ Decided(pre_list[3])
    /\ pre_list[1].data.priority > PRIO_EDF - 1

\* job shares the lowest priority of the ready list, in 1..126, with another
\* ready job.
TiedAtLowest(job) ==
    /\ job \in Elems(ready_list)
    /\ job.data.priority = Least(PrioritiesOf(ready_list))
    /\ job.data.priority \in PRIO_HIGHEST..(PRIO_EDF - 1)
    /\ \E other \in Elems(ready_list) :
          other # job /\ other.data.priority = job.data.priority

\* C3: round robin.  If from some point on the host only asks for decisions
\* (no activation, no termination) and a job is tied with another at the
\* lowest priority, in 1..126, then that job is returned again and again.
C3_RoundRobin ==
    \A job \in Jobs :
        <>[](Scheduled /\ TiedAtLowest(job)) => []<>(Scheduled /\ Decided(job))

\* C4: when every job of a non-empty ready list has priority 127,
\* schedule(cpu) returns (job, cpu) for a ready job whose absolute deadline
\* is the least of the ready jobs'.
C4_EdfPicksEarliestDeadline ==
    (Scheduled /\ pre_list # <<>> /\ PrioritiesOf(pre_list) = {PRIO_EDF})
    => \E job \in Elems(pre_list) :
          /\ Decided(job)
          /\ job.absolute_deadline = Least(DeadlinesOf(pre_list))

\* The job with the earlier deadline was activated after the other.
C4_Witness ==
    /\ Scheduled /\ Len(pre_list) = 2
    /\ PrioritiesOf(pre_list) = {PRIO_EDF}
    /\ pre_list[1].absolute_deadline > pre_list[2].absolute_deadline
    /\ Decided(pre_list[2])

\* C5: when the lowest priority value of the ready list is outside 1..127,
\* schedule(cpu) logs an error and returns the decision (None, cpu), as it
\* does for an empty list, and raises nothing.
C5_InvalidPriorityDecidesNone ==
    (Scheduled /\ pre_list # <<>>
       /\ Least(PrioritiesOf(pre_list)) \notin PRIO_HIGHEST..PRIO_EDF)
    => /\ Decided(None)
       /\ log = <<Error(Least(PrioritiesOf(pre_list)))>>

\* C6: on_activate(job) for a job already in the ready list fails, and no
\* job is ever in the ready list twice.
C6_ActivatingPresentJobFails ==
    /\ (Activated /\ call.job \in Elems(pre_list)) => ret.raised # "no"
    /\ \A job \in Jobs : Count(ready_list, job) <= 1

\* C7: on_terminated(job) for a job that is not in the ready list fails: it
\* raises, leaves the ready list as it was and requests no reschedule.  So a
\* job that was terminated and has no activation left is not ready any more,
\* and terminating it again fails.
C7_TerminatingAbsentJobFails ==
    /\ (Terminated /\ call.job \notin Elems(pre_list))
       => (ret = ValueError /\ ready_list = pre_list /\ resched = <<>>)
    /\ (Terminated /\ ret = Returned(None) /\ Count(pre_list, call.job) = 1)
       => call.job \notin Elems(ready_list)

\* A job absent from a non-empty ready list was terminated.
C7_Witness ==
    /\ Terminated /\ call.job \notin Elems(pre_list)
    /\ ret = ValueError
    /\ Len(pre_list) = 2

\* C8: schedule(cpu) leaves the ready list as it was, members and order, on
\* each of its branches; only on_activate and on_terminated change it.
C8_ScheduleKeepsReadyList ==
    /\ Scheduled => ready_list = pre_list
    /\ ready_list # pre_list => (Activated \/ Terminated)

\* A decision was taken among three ready jobs.
C8_Witness ==
    /\ Scheduled /\ Len(pre_list) = 3
    /\ ret.value # None /\ ret.value.job # None

\* C9: on an empty ready list schedule(cpu) returns (None, cpu), cpu being
\* the processor it was given.
C9_EmptyDecidesNone ==
    (Scheduled /\ pre_list = <<>>)
    => ret = Returned([type |-> "tuple", job |-> None, cpu |-> call.cpu])

\* The second processor asked while no job was ready.
C9_Witness ==
    /\ Scheduled /\ pre_list = <<>> /\ call.cpu = "cpu1"
    /\ ret.value.job = None /\ ret.value.cpu = "cpu1"

\* C10: on_activate(job) for a job that is not in the ready list, followed at
\* once by on_terminated(job), leaves the ready list as it was before the
\* two calls: same members, same order.
C10_ActivateThenTerminateRestores ==
    [][(/\ Activated /\ call.job \notin Elems(pre_list)
        /\ call'.op = "on_terminated" /\ call'.job = call.job)
       => ready_list' = pre_list]_vars

\* A job was taken out from behind two ready jobs it had been appended to.
C10_Witness ==
    /\ Terminated /\ ret = Returned(None)
    /\ call.job \notin Elems(ready_list)
    /\ pre_list = Append(ready_list, call.job)
    /\ Len(ready_list) = 2

\* The list has exactly one job at its lowest priority, which is in 1..126.
UntiedFixedPriority(list) ==
    /\ list # <<>>
    /\ Least(PrioritiesOf(list)) \in PRIO_HIGHEST..(PRIO_EDF - 1)
    /\ Cardinality({ i \in 1..Len(list) :
                       list[i].data.priority = Least(PrioritiesOf(list)) }) = 1

\* C11: a schedule call that follows a schedule call at once, on a ready
\* list with a single job at the lowest priority (in 1..126), returns the job
\* the call before it returned, for the processor it is given.
C11_RepeatedScheduleSameDecision ==
    [][(/\ Scheduled /\ UntiedFixedPriority(ready_list)
        /\ call'.op = "schedule")
       => ret' = Returned([type |-> "tuple", job |-> ret.value.job,
                           cpu |-> call'.cpu])]_vars

\* A decision taken for the second processor among three ready jobs, the
\* single lowest-priority one not at the head.
C11_Witness ==
    /\ Scheduled /\ call.cpu = "cpu1"
    /\ Len(pre_list) = 3 /\ UntiedFixedPriority(pre_list)
    /\ Decided(pre_list[2])

\* The last call returned a decision that names a job.
ReturnedJob ==
    /\ Scheduled /\ ret.raised = "no"
    /\ ret.value # None /\ ret.value.job # None

\* C12: fixed priority goes before deadlines.  While a ready job has a
\* priority in 1..126 and the lowest priority is valid, schedule returns a
\* job with a priority in 1..126, never one with priority 127, whatever the
\* deadlines; a job with priority 127 is returned only when no ready job has
\* a priority below 127.
C12_FixedPriorityBeforeDeadline ==
    /\ (/\ Scheduled
        /\ \E job \in Elems(pre_list) :
              job.data.priority \in PRIO_HIGHEST..(PRIO_EDF - 1)
        /\ Least(PrioritiesOf(pre_list)) \in PRIO_HIGHEST..PRIO_EDF)
       => /\ ReturnedJob
          /\ ret.value.job.data.priority \in PRIO_HIGHEST..(PRIO_EDF - 1)
    /\ (ReturnedJob /\ ret.value.job.data.priority = PRIO_EDF)
       => \A job \in Elems(pre_list) : job.data.priority >= PRIO_EDF

\* A job with priority 127 and the earliest deadline heads the list, before
\* two jobs with priority 1; the first of these two is returned.
C12_Witness ==
    /\ Scheduled /\ Len(pre_list) = 3
    /\ pre_list[1].data.priority = PRIO_EDF /\ pre_list[1].absolute_deadline = 10
    /\ pre_list[2].data.priority = PRIO_HIGHEST /\ pre_list[2].absolute_deadline = 20
    /\ pre_list[3].data.priority = PRIO_HIGHEST
    /\ Decided(pre_list[2])

\* The last call was a schedule that returned without naming a job.
ReturnedNoJob == Scheduled /\ ret.raised = "no" /\ ~ReturnedJob

\* C13: validity is judged on the lowest priority of the whole list, not job
\* by job.  With a ready job of priority 0 or less, schedule returns no job
\* even if ready jobs with valid priorities exist; a ready job with a
\* priority above 127 does not keep a ready job with a priority in 1..126
\* from being returned.
C13_ValidityOfLowestPriority ==
    /\ (Scheduled /\ \E job \in Elems(pre_list) : job.data.priority <= 0)
       => ReturnedNoJob
    /\ (/\ Scheduled
        /\ \E job \in Elems(pre_list) : job.data.priority > PRIO_EDF
        /\ Least(PrioritiesOf(pre_list)) \in PRIO_HIGHEST..(PRIO_EDF - 1))
       => \E job \in Elems(pre_list) :
             /\ Decided(job)
             /\ job.data.priority \in PRIO_HIGHEST..(PRIO_EDF - 1)

\* No job came back although jobs with priorities 1 and 128 were ready
\* behind one with priority 0.
C13_Witness ==
    /\ ReturnedNoJob /\ Len(pre_list) = 3
    /\ pre_list[1].data.priority = PRIO_HIGHEST
    /\ pre_list[2].data.priority = PRIO_EDF + 1
    /\ pre_list[3].data.priority = 0

\* C14: an on_activate or on_terminated that returns normally has issued
\* exactly one reschedule request, on the processor of its job, and issued
\* it with the ready list already updated (the job appended, or one
\* occurrence of it removed); the handler itself returns nothing and logs
\* nothing: it selects no job.
C14_OneReschedAfterUpdate ==
    ((Activated \/ Terminated) /\ ret.raised = "no")
    => /\ resched = <<[cpu |-> call.job.cpu, ready_list |-> ready_list]>>
       /\ Count(ready_list, call.job) =
              Count(pre_list, call.job) + (IF Activated THEN 1 ELSE -1)
       /\ ret = Returned(None)
       /\ log = <<>>

\* A job of the second processor was terminated, two jobs staying ready.
C14_Witness ==
    /\ Terminated /\ ret.raised = "no"
    /\ call.job.cpu = "cpu1"
    /\ Len(ready_list) = 2
    /\ Len(resched) = 1 /\ resched[1].cpu = "cpu1"

\* The lowest priority of a non-empty list is outside 1..127.
InvalidLowest(list) ==
    list # <<>> /\ Least(PrioritiesOf(list)) \notin PRIO_HIGHEST..PRIO_EDF

\* value is the decision schedule owes processor cpu on a list without an
\* invalid lowest priority: (None, cpu) on the empty list, a job of the
\* lowest priority in the FP band, a job of the earliest deadline at 127.
NormalDecision(list, cpu, value) ==
    IF list = <<>>
    THEN value = [type |-> "tuple", job |-> None, cpu |-> cpu]
    ELSE \E job \in Elems(list) :
            /\ value = [type |-> "tuple", job |-> job, cpu |-> cpu]
            /\ IF Least(PrioritiesOf(list)) = PRIO_EDF
               THEN job.absolute_deadline = Least(DeadlinesOf(list))
               ELSE job.data.priority = Least(PrioritiesOf(list))

\* C15: an invalid lowest priority is recovered from locally.  A schedule
\* call on a list with an invalid lowest priority returns without raising
\* and leaves the ready list as it was; and when a termination has taken
\* the list from an invalid lowest priority to none, the schedule call that
\* follows returns the normal decision (FP, EDF or empty) for the jobs left.
C15_InvalidPriorityRecovered ==
    [][/\ (call'.op = "schedule" /\ InvalidLowest(ready_list))
          => (ret'.raised = "no" /\ ready_list' = ready_list)
       /\ (/\ Terminated /\ ret.raised = "no"
           /\ InvalidLowest(pre_list) /\ ~InvalidLowest(ready_list)
           /\ call'.op = "schedule")
          => /\ ret'.raised = "no"
             /\ NormalDecision(ready_list, call'.cpu, ret'.value)]_vars

\* The job with priority 0 was terminated; two jobs with priority 1 are
\* left for the next decision.
C15_Witness ==
    /\ Terminated /\ ret.raised = "no"
    /\ call.job.data.priority = 0
    /\ InvalidLowest(pre_list) /\ Len(ready_list) = 2
    /\ PrioritiesOf(ready_list) = {PRIO_HIGHEST}

\* C16: priorities are checked when a decision is taken, not before.
\* on_activate takes a job of any priority, the default 0 included: it
\* appends the job, requests a reschedule and returns without an error.  An
\* error is logged only by a schedule call, on a list whose lowest priority
\* is invalid, and such a call logs it.
C16_PriorityCheckedAtDecision ==
    /\ Activated
       => /\ ret = Returned(None)
          /\ ready_list = Append(pre_list, call.job)
          /\ Len(resched) = 1
          /\ log = <<>>
    /\ (\E i \in 1..Len(log) : log[i].level = "error")
       => (Scheduled /\ InvalidLowest(pre_list))
    /\ (Scheduled /\ InvalidLowest(pre_list))
       => /\ Len(log) = 1 /\ log[1].level = "error"
          /\ log[1].value = Least(PrioritiesOf(pre_list))

\* A job with the default priority 0 was activated behind a valid one.
C16_Witness ==
    /\ Activated /\ ret = Returned(None)
    /\ call.job.data.priority = 0
    /\ Len(ready_list) = 2 /\ ready_list[2] = call.job
    /\ ready_list[1].data.priority = PRIO_HIGHEST

\* The first position of list that holds a job of the lowest priority, and
\* the first that holds a job of the earliest deadline.
FirstOfLowestPriority(list) ==
    CHOOSE i \in 1..Len(list) :
        /\ list[i].data.priority = Least(PrioritiesOf(list))
        /\ \A k \in 1..(i - 1) : list[k].data.priority # Least(PrioritiesOf(list))
FirstOfEarliestDeadline(list) ==
    CHOOSE i \in 1..Len(list) :
        /\ list[i].absolute_deadline = Least(DeadlinesOf(list))
        /\ \A k \in 1..(i - 1) : list[k].absolute_deadline # Least(DeadlinesOf(list))

C18_ReturnedPriorityValid ==
    ReturnedJob
    => /\ ret.value.job.data.priority \in PRIO_HIGHEST..PRIO_EDF
       /\ Least(PrioritiesOf(pre_list)) = PRIO_EDF
          => ret.value.job.data.priority = PRIO_EDF

\* C19: a job returned by schedule is in the ready list when schedule is
\* called, and it is not a job whose termination was the call just before,
\* with no activation of it since.
C19_ReturnedJobIsReady ==
    [][(call'.op = "schedule" /\ ret'.raised = "no"
          /\ ret'.value # None /\ ret'.value.job # None)
       => /\ ret'.value.job \in Elems(ready_list)
          /\ ~(Terminated /\ call.job = ret'.value.job)]_vars

====
